---- MODULE Spec2Model ----
(***************************************************************************)
(* Membership confirmation workflow of clubWebsite/database/models.py:     *)
(* the `members` table, Member.get_or_create, generate_confirmation_token, *)
(* confirm, has_token_expired and prune_expired.                           *)
(*                                                                         *)
(* Time is counted in clock ticks, TicksPerHour of them to the hour; the   *)
(* code compares datetimes, so only the order of instants matters.         *)
(* get_or_create is modelled with its four declared parameters (no extra   *)
(* **kwargs columns).                                                      *)
(***************************************************************************)
EXTENDS Integers, Sequences, FiniteSets, Bags, TLC

\* ---------------------------------------------------------------- bounds
MaxNow == 2
TicksPerHour == 1
MaxProc == 2

\* ------------------------------------------------------------ value sets
StudentIds == {900111111, 900222222}
\* the sign-up forms a request can carry: email, first_name, last_name
Forms == {[email |-> "ann@my.vcccd.edu", first_name |-> "Ann", last_name |-> "Lee"],
          [email |-> "bob@my.vcccd.edu", first_name |-> "Bob", last_name |-> "Ray"]}
\* secrets.token_urlsafe(nbytes=32) draws one of these opaque strings
Tokens == {"tokenA", "tokenB"}
\* the expiry windows, in hours, that callers pass as expire_delta
ExpireDeltas == {1}
Procs == 1..MaxProc

\* Python None in the nullable columns: confirmation_time (a DateTime) and
\* confirmation_token (a String)
None == -1
NoToken == "None"

\* what SendGridAPIClient.send can do: succeed, or raise an exception that
\* carries a .message attribute, or raise one that does not (the Python 3
\* built-ins and python_http_client's HTTPError do not)
SendOutcomes == {"sent", "error_with_message", "error_without_message"}

\* the confirm() messages
AlreadyConfirmed == "Your membership has already been confirmed"
NotSent == "Your confirmation email has not been sent out, please wait"
Expired == "Confirmation link expired, please try again"
Confirmed == "Your membership has been confirmed"
Invalid == "Confirmation token invalid, please try again"

VARIABLES
  members,   \* rows of the `members` table
  now,       \* datetime.datetime.utcnow()
  outbox,    \* the bag of mails handed to SendGridAPIClient.send
  result,    \* the last call: its name, arguments and what it returned or raised
  call       \* per request worker: where it is inside get_or_create

vars == <<members, now, outbox, result, call>>

\* ------------------------------------------------------------ the table
\* (mutant) the lookup misses members who have not confirmed yet
get_only_confirmed(student_id) ==
  {m \in members : m.student_id = student_id /\ m.is_confirmed}

\* Member.query.get(student_id): the rows with that primary key
get(student_id) == {m \in members : m.student_id = student_id}

Row(student_id) == CHOOSE m \in members : m.student_id = student_id

\* Member.query.filter_by(is_confirmed=False).all()
filter_by_unconfirmed == {m \in members : ~m.is_confirmed}

\* Member(student_id, email, first_name, last_name) as flushed by the first
\* commit: the column defaults fill time_added and is_confirmed
Member(student_id, email, first_name, last_name) ==
  [student_id |-> student_id, email |-> email, first_name |-> first_name,
   last_name |-> last_name, time_added |-> now, confirmation_token |-> NoToken,
   confirmation_time |-> None, is_confirmed |-> FALSE]

\* replace a row by its updated version (UPDATE ... WHERE student_id = ...)
update(old, new) == (members \ {old}) \cup {new}

\* ------------------------------------------------------- return values
\* a Member object is handed back by reference: <<student_id>> stands for
\* the session's object of that primary key, <<>> for None. token is the
\* confirmation_token argument when the call was confirm().
Returned(op, value) ==
  [op |-> op, status |-> "returned", value |-> value, error |-> "",
   token |-> NoToken]

Raised(op, error) ==
  [op |-> op, status |-> "raised", value |-> <<>>, error |-> error,
   token |-> NoToken]

\* a request worker outside get_or_create
Idle == [pc |-> "idle", student_id |-> None, email |-> "", first_name |-> "",
         last_name |-> "", token |-> NoToken]

\* ------------------------------------------------------- Member methods
set_confirmation_time(m) == [m EXCEPT !.confirmation_time = now]

\* (mutant) issuing a token starts the confirmation over
generate_confirmation_token_resets(m, token) ==
  [set_confirmation_time([m EXCEPT !.confirmation_token = token])
     EXCEPT !.is_confirmed = FALSE]

\* (mutant) the token is stored without the time it was issued
generate_confirmation_token_untimed(m, token) ==
  [m EXCEPT !.confirmation_token = token]

\* (mutant) a member that already holds a token keeps it; only the issue
\* time is renewed
generate_confirmation_token_keeps(m, token) ==
  set_confirmation_time(
    [m EXCEPT !.confirmation_token =
       IF m.confirmation_token = NoToken THEN token ELSE m.confirmation_token])

generate_confirmation_token(m, token) ==
  set_confirmation_time([m EXCEPT !.confirmation_token = token])

\* defined when confirmation_time is set; None + timedelta is a TypeError
get_token_expire_time(m, expire_delta) ==
  m.confirmation_time + expire_delta * TicksPerHour

time_left(m, expire_delta) == get_token_expire_time(m, expire_delta) - now

\* (mutant) the token counts as expired only at the instant its window closes
has_token_expired_at_instant(m, expire_delta) == time_left(m, expire_delta) = 0

\* (mutant) the instant of expiry itself still counts as inside the window
has_token_expired_strict(m, expire_delta) == time_left(m, expire_delta) < 0

has_token_expired(m, expire_delta) == time_left(m, expire_delta) <= 0

\* (mutant) the token is cleared once it has been used
set_confirmed_clears_token(m) ==
  [m EXCEPT !.is_confirmed = TRUE, !.confirmation_token = NoToken]

set_confirmed(m) == [m EXCEPT !.is_confirmed = TRUE]

\* (mutant) the expiry test comes before the already-confirmed test
confirm_expiry_first(m, token, expire_delta) ==
  IF m.confirmation_token = NoToken
    THEN [result |-> Returned("confirm", <<FALSE, NotSent>>), member |-> m]
  ELSE IF has_token_expired(m, expire_delta)
    THEN [result |-> Returned("confirm", <<FALSE, Expired>>), member |-> m]
  ELSE IF m.is_confirmed
    THEN [result |-> Returned("confirm", <<TRUE, AlreadyConfirmed>>), member |-> m]
  ELSE IF m.confirmation_token = token
    THEN [result |-> Returned("confirm", <<TRUE, Confirmed>>),
          member |-> set_confirmed(m)]
  ELSE [result |-> Returned("confirm", <<FALSE, Invalid>>), member |-> m]

\* (mutant) the token is compared before the expiry test
confirm_match_first(m, token, expire_delta) ==
  IF m.is_confirmed
    THEN [result |-> Returned("confirm", <<TRUE, AlreadyConfirmed>>), member |-> m]
  ELSE IF m.confirmation_token = NoToken
    THEN [result |-> Returned("confirm", <<FALSE, NotSent>>), member |-> m]
  ELSE IF m.confirmation_token = token
    THEN [result |-> Returned("confirm", <<TRUE, Confirmed>>),
          member |-> set_confirmed(m)]
  ELSE IF has_token_expired(m, expire_delta)
    THEN [result |-> Returned("confirm", <<FALSE, Expired>>), member |-> m]
  ELSE [result |-> Returned("confirm", <<FALSE, Invalid>>), member |-> m]

\* (mutant) the token is compared before the test for a token never issued
confirm_match_before_sent(m, token, expire_delta) ==
  IF m.is_confirmed
    THEN [result |-> Returned("confirm", <<TRUE, AlreadyConfirmed>>), member |-> m]
  ELSE IF m.confirmation_token = token
    THEN [result |-> Returned("confirm", <<TRUE, Confirmed>>),
          member |-> set_confirmed(m)]
  ELSE IF m.confirmation_token = NoToken
    THEN [result |-> Returned("confirm", <<FALSE, NotSent>>), member |-> m]
  ELSE IF has_token_expired(m, expire_delta)
    THEN [result |-> Returned("confirm", <<FALSE, Expired>>), member |-> m]
  ELSE [result |-> Returned("confirm", <<FALSE, Invalid>>), member |-> m]

\* (mutant) the expiry test comes before the test for a token never issued,
\* so it is evaluated on a confirmation_time of None
confirm_expiry_before_sent(m, token, expire_delta) ==
  IF m.is_confirmed
    THEN [result |-> Returned("confirm", <<TRUE, AlreadyConfirmed>>), member |-> m]
  ELSE IF m.confirmation_time = None
    THEN [result |-> Raised("confirm", "TypeError"), member |-> m]
  ELSE IF has_token_expired(m, expire_delta)
    THEN [result |-> Returned("confirm", <<FALSE, Expired>>), member |-> m]
  ELSE IF m.confirmation_token = NoToken
    THEN [result |-> Returned("confirm", <<FALSE, NotSent>>), member |-> m]
  ELSE IF m.confirmation_token = token
    THEN [result |-> Returned("confirm", <<TRUE, Confirmed>>),
          member |-> set_confirmed(m)]
  ELSE [result |-> Returned("confirm", <<FALSE, Invalid>>), member |-> m]

\* (mutant) a failed attempt with a wrong token uses the issued token up
confirm_consumes_token(m, token, expire_delta) ==
  IF m.is_confirmed
    THEN [result |-> Returned("confirm", <<TRUE, AlreadyConfirmed>>), member |-> m]
  ELSE IF m.confirmation_token = NoToken
    THEN [result |-> Returned("confirm", <<FALSE, NotSent>>), member |-> m]
  ELSE IF has_token_expired(m, expire_delta)
    THEN [result |-> Returned("confirm", <<FALSE, Expired>>), member |-> m]
  ELSE IF m.confirmation_token = token
    THEN [result |-> Returned("confirm", <<TRUE, Confirmed>>),
          member |-> set_confirmed(m)]
  ELSE [result |-> Returned("confirm", <<FALSE, Invalid>>),
        member |-> [m EXCEPT !.confirmation_token = NoToken,
                             !.confirmation_time = None]]

\* confirm(self, confirmation_token, expire_delta): the outcome and the row
\* as committed
confirm(m, token, expire_delta) ==
  IF m.is_confirmed
    THEN [result |-> Returned("confirm", <<TRUE, AlreadyConfirmed>>), member |-> m]
  ELSE IF m.confirmation_token = NoToken
    THEN [result |-> Returned("confirm", <<FALSE, NotSent>>), member |-> m]
  ELSE IF m.confirmation_time = None
    THEN [result |-> Raised("confirm", "TypeError"), member |-> m]
  ELSE IF has_token_expired(m, expire_delta)
    THEN [result |-> Returned("confirm", <<FALSE, Expired>>), member |-> m]
  ELSE IF m.confirmation_token = token
    THEN [result |-> Returned("confirm", <<TRUE, Confirmed>>),
          member |-> set_confirmed(m)]
  ELSE [result |-> Returned("confirm", <<FALSE, Invalid>>), member |-> m]

\* lines 58-65: what get_or_create hands back once the mail was handed to
\* SendGrid. The except branch prints e.message before returning None; an
\* exception without that attribute makes the handler itself raise.
send_result(new_member, outcome) ==
  CASE outcome = "sent" -> Returned("get_or_create", <<new_member.student_id>>)
    [] outcome = "error_with_message" -> Returned("get_or_create", <<>>)
    [] outcome = "error_without_message" -> Raised("get_or_create", "AttributeError")

\* (mutant) the link is built before the token exists
Mail_without_token(to_emails, student_id, confirmation_token) ==
  [to_emails |-> to_emails, student_id |-> student_id,
   confirmation_token |-> NoToken]

\* lines 50-56: the mail carries the recipient and the link's two parameters
Mail(to_emails, student_id, confirmation_token) ==
  [to_emails |-> to_emails, student_id |-> student_id,
   confirmation_token |-> confirmation_token]

\* line 72-73: the ids prune_expired collects
delete_ids(expire_delta) ==
  {m.student_id : m \in {u \in filter_by_unconfirmed :
                           has_token_expired(u, expire_delta)}}

\* line 74, Member.query.delete(delete_ids): the one positional parameter of
\* SQLAlchemy's Query.delete is synchronize_session, and a list is none of
\* its strategies, so the call raises (TypeError up to 1.3, ArgumentError
\* from 1.4) before any DELETE is emitted; the rows stay as they are.
query_delete(synchronize_session) ==
  [result |-> Raised("prune_expired", "ArgumentError"), members |-> members]

\* ------------------------------------------------------------- actions
Init ==
  /\ members = {}
  /\ now = 0
  /\ outbox = EmptyBag
  /\ result = Returned("none", <<>>)
  /\ call = [p \in Procs |-> Idle]

\* (mutant) finding the member counts as registering it again
Fetch_restamps(student_id) ==
  /\ result' = Returned("get_or_create", <<Row(student_id).student_id>>)
  /\ members' = update(Row(student_id),
                        [Row(student_id) EXCEPT !.time_added = now])
  /\ UNCHANGED outbox

\* lines 42-43: the member is stored and handed back
Fetch(student_id) ==
  /\ result' = Returned("get_or_create", <<Row(student_id).student_id>>)
  /\ UNCHANGED <<members, outbox>>

\* lines 45-65: the member is created, given the token that token_urlsafe
\* drew, and mailed; outcome is what SendGrid did with the mail
Register(student_id, form, token, outcome) ==
  LET new_member == generate_confirmation_token(
                      Member(student_id, form.email, form.first_name,
                             form.last_name),
                      token)
  IN /\ members' = members \cup {new_member}
     /\ outbox' = outbox (+) SetToBag({Mail(form.email, student_id, token)})
     /\ result' = send_result(new_member, outcome)

\* Member.get_or_create run to completion
RegisterOrFetch(student_id, form) ==
  /\ IF get(student_id) # {}
       THEN Fetch(student_id)
       ELSE \E token \in Tokens, outcome \in SendOutcomes :
              Register(student_id, form, token, outcome)
  /\ UNCHANGED <<now, call>>

\* member.generate_confirmation_token() on a stored member
GenerateConfirmationToken(student_id, token) ==
  /\ get(student_id) # {}
  /\ LET m == Row(student_id)
     IN /\ members' = update(m, generate_confirmation_token(m, token))
        /\ result' = Returned("generate_confirmation_token", <<token>>)
  /\ UNCHANGED <<now, outbox, call>>

\* member.confirm(confirmation_token, expire_delta) on a stored member
Confirm(student_id, token, expire_delta) ==
  /\ get(student_id) # {}
  /\ LET m == Row(student_id)
         r == confirm(m, token, expire_delta)
     IN /\ members' = update(m, r.member)
        /\ result' = [r.result EXCEPT !.token = token]
  /\ UNCHANGED <<now, outbox, call>>

\* Member.prune_expired(expire_delta)
PruneExpired(expire_delta) ==
  /\ IF \E m \in filter_by_unconfirmed : m.confirmation_time = None
       THEN /\ result' = Raised("prune_expired", "TypeError")
            /\ UNCHANGED members
       ELSE LET r == query_delete(delete_ids(expire_delta))
            IN /\ members' = r.members
               /\ result' = r.result
  /\ UNCHANGED <<now, outbox, call>>

\* the clock advances
Tick ==
  /\ now < MaxNow
  /\ now' = now + 1
  /\ UNCHANGED <<members, outbox, result, call>>

Next ==
  \/ \E student_id \in StudentIds, form \in Forms :
       RegisterOrFetch(student_id, form)
  \/ \E student_id \in StudentIds, token \in Tokens :
       GenerateConfirmationToken(student_id, token)
  \/ \E student_id \in StudentIds, token \in Tokens \cup {NoToken},
        expire_delta \in ExpireDeltas :
       Confirm(student_id, token, expire_delta)
  \/ \E expire_delta \in ExpireDeltas : PruneExpired(expire_delta)
  \/ Tick

Spec == Init /\ [][Next]_vars

\* ------------------------------------------- get_or_create, step by step
\* Request workers that share the table: each commit is one step, and other
\* workers' steps can fall between two commits of one get_or_create. The
\* workers race for one student id; rows of different keys do not interact.
RacedIds == {900111111}

\* lines 41-43: the lookup, and the return when the member is found
Query(p, student_id, form) ==
  /\ call[p].pc = "idle"
  /\ IF get(student_id) # {}
       THEN /\ result' = Returned("get_or_create", <<Row(student_id).student_id>>)
            /\ UNCHANGED call
       ELSE /\ call' = [call EXCEPT ![p] =
                         [pc |-> "insert", student_id |-> student_id,
                          email |-> form.email, first_name |-> form.first_name,
                          last_name |-> form.last_name, token |-> NoToken]]
            /\ UNCHANGED result
  /\ UNCHANGED <<members, now, outbox>>

\* lines 45-47: the INSERT commits unless the primary key is taken, and then
\* the commit raises IntegrityError out of get_or_create
Insert(p) ==
  /\ call[p].pc = "insert"
  /\ LET c == call[p]
     IN IF get(c.student_id) # {}
          THEN /\ result' = Raised("get_or_create", "IntegrityError")
               /\ call' = [call EXCEPT ![p] = Idle]
               /\ UNCHANGED members
          ELSE /\ members' = members \cup
                     {Member(c.student_id, c.email, c.first_name, c.last_name)}
               /\ call' = [call EXCEPT ![p].pc = "token"]
               /\ UNCHANGED result
  /\ UNCHANGED <<now, outbox>>

\* line 49: new_member.generate_confirmation_token()
GenToken(p, token) ==
  /\ call[p].pc = "token"
  /\ LET m == Row(call[p].student_id)
     IN members' = update(m, generate_confirmation_token(m, token))
  /\ call' = [call EXCEPT ![p].pc = "send", ![p].token = token]
  /\ UNCHANGED <<now, outbox, result>>

\* (mutant) a failed send rolls the new record back
Send_rolls_back(p, outcome) ==
  /\ call[p].pc = "send"
  /\ LET c == call[p]
     IN /\ outbox' = outbox (+) SetToBag({Mail(c.email, c.student_id, c.token)})
        /\ result' = send_result(Row(c.student_id), outcome)
        /\ members' = IF outcome = "sent" THEN members
                      ELSE members \ get(c.student_id)
  /\ call' = [call EXCEPT ![p] = Idle]
  /\ UNCHANGED now

\* lines 50-65: build the mail, hand it to SendGrid, return
Send(p, outcome) ==
  /\ call[p].pc = "send"
  /\ LET c == call[p]
     IN /\ outbox' = outbox (+) SetToBag({Mail(c.email, c.student_id, c.token)})
        /\ result' = send_result(Row(c.student_id), outcome)
  /\ call' = [call EXCEPT ![p] = Idle]
  /\ UNCHANGED <<members, now>>

ConcNext ==
  \/ \E p \in Procs, student_id \in RacedIds, form \in Forms :
       Query(p, student_id, form)
  \/ \E p \in Procs : Insert(p)
  \/ \E p \in Procs, token \in Tokens : GenToken(p, token)
  \/ \E p \in Procs, outcome \in SendOutcomes : Send(p, outcome)
  \/ \E student_id \in StudentIds, token \in Tokens :
       GenerateConfirmationToken(student_id, token)
  \/ \E student_id \in StudentIds, token \in Tokens \cup {NoToken},
        expire_delta \in ExpireDeltas :
       Confirm(student_id, token, expire_delta)
  \/ \E expire_delta \in ExpireDeltas : PruneExpired(expire_delta)
  \/ Tick

ConcSpec == Init /\ [][ConcNext]_vars

\* ------------------------------------------------- the periodic sweep
\* The deployment of prune_expired's docstring: the clock keeps advancing,
\* prune_expired is called again and again with the one expiry window, and
\* generate_confirmation_token is called only by get_or_create. The clock
\* stops at MaxNow, so members are registered while a whole window still
\* fits before it: every registered member's window closes.
LiveNext ==
  \/ \E student_id \in StudentIds, form \in Forms :
       /\ \A expire_delta \in ExpireDeltas :
            now + expire_delta * TicksPerHour <= MaxNow
       /\ RegisterOrFetch(student_id, form)
  \/ \E student_id \in StudentIds, token \in Tokens \cup {NoToken},
        expire_delta \in ExpireDeltas :
       Confirm(student_id, token, expire_delta)
  \/ \E expire_delta \in ExpireDeltas : PruneExpired(expire_delta)
  \/ Tick

LiveSpec ==
  /\ Init
  /\ [][LiveNext]_vars
  /\ WF_vars(Tick)
  /\ WF_vars(\E expire_delta \in ExpireDeltas : PruneExpired(expire_delta))

\* ------------------------------------------------------------- claims
\* the call recorded in r is the call e, compared field by field
Same(r, e) ==
  /\ r.op = e.op
  /\ r.status = e.status
  /\ r.error = e.error
  /\ r.value = e.value
  /\ r.token = e.token

Stored(student_id) == \E m \in members : m.student_id = student_id

StoredAfter(student_id) == \E m \in members' : m.student_id = student_id

\* C1 as stated: every register_or_fetch call, the creating one with a
\* failed send included, returns the stored record of its student_id, and a
\* call for a stored id sends no notification.
C1_EveryCallReturnsTheRecord ==
  [][\A student_id \in StudentIds, form \in Forms :
       RegisterOrFetch(student_id, form)
         => /\ Same(result', Returned("get_or_create", <<student_id>>))
            /\ StoredAfter(student_id)
            /\ Stored(student_id) => outbox' = outbox]_vars

\* C1 amended: a register_or_fetch call for a stored student_id returns that
\* record, sends no notification and changes no row, whatever email and
\* names it carries; the call that creates the record leaves it stored,
\* sends one notification and returns the record exactly when the send
\* succeeded.
C1_SecondCallReturnsTheRecord ==
  [][result'.op = "get_or_create" =>
     /\ \A student_id \in StudentIds, form \in Forms :
          RegisterOrFetch(student_id, form)
            => /\ StoredAfter(student_id)
               /\ Stored(student_id)
                    => /\ Same(result', Returned("get_or_create", <<student_id>>))
                       /\ outbox' = outbox
                       /\ members' = members
               /\ ~Stored(student_id)
                    => BagCardinality(outbox') = BagCardinality(outbox) + 1
     /\ \A student_id \in StudentIds, form \in Forms, token \in Tokens,
           outcome \in SendOutcomes :
          ~Stored(student_id) /\ Register(student_id, form, token, outcome)
            => (Same(result', Returned("get_or_create", <<student_id>>))
                  <=> outcome = "sent")
    ]_vars

\* C1 witness: register_or_fetch has just returned a member that was
\* confirmed before the call, so the call found it stored
C1_Witness ==
  \E m \in members :
    /\ m.is_confirmed
    /\ Same(result, Returned("get_or_create", <<m.student_id>>))


\* C2: no step leaves two rows with one student_id (the table starts
\* empty), and a register_or_fetch call for a
\* stored student_id leaves every row of the table as it was, whatever email
\* and names the call carries.
C2_UniqueAndUnchanged ==
  [][/\ \A m1 \in members', m2 \in members' :
          m1.student_id = m2.student_id => m1 = m2
     /\ result'.op = "get_or_create"
          => \A student_id \in StudentIds, form \in Forms :
               Stored(student_id) /\ RegisterOrFetch(student_id, form)
                 => members' = members]_vars

\* C2 witness: two members are stored and register_or_fetch has just
\* returned one whose token was issued again after it registered, so the
\* call came after the registration
C2_Witness ==
  /\ Cardinality(members) = 2
  /\ \E m \in members :
       /\ m.confirmation_time > m.time_added
       /\ Same(result, Returned("get_or_create", <<m.student_id>>))

\* C3: in no step does a stored member go from confirmed to unconfirmed
\* (so is_confirmed turns true at most once while the record exists).
C3_ConfirmedStaysConfirmed ==
  [][\A m \in members, n \in members' :
       m.student_id = n.student_id /\ m.is_confirmed => n.is_confirmed]_vars

\* C3 witness: the only stored member is confirmed and has just been
\* issued a new token
C3_Witness ==
  /\ Cardinality(members) = 1
  /\ \A m \in members : m.is_confirmed /\ m.confirmation_time = now
  /\ result.op = "generate_confirmation_token"

\* what a confirm(token) call hands back
Outcome(success, message, token) ==
  [Returned("confirm", <<success, message>>) EXCEPT !.token = token]

\* the expiry window of the claims: the token was issued expire_delta hours
\* ago or earlier
WindowOver(m, expire_delta) ==
  now >= m.confirmation_time + expire_delta * TicksPerHour

\* C4: confirm answers with the first case that applies, in the order
\* already confirmed, not yet sent, expired, confirmed (and is_confirmed is
\* stored as true), invalid token; only the confirmed case changes a row.
C4_ConfirmOrder ==
  [][result'.op = "confirm" =>
     \A student_id \in StudentIds, token \in Tokens \cup {NoToken},
        expire_delta \in ExpireDeltas :
       Stored(student_id) /\ Confirm(student_id, token, expire_delta)
         => LET m == Row(student_id)
            IN IF m.is_confirmed
                 THEN /\ Same(result', Outcome(TRUE, AlreadyConfirmed, token))
                      /\ members' = members
               ELSE IF m.confirmation_token = NoToken
                 THEN /\ Same(result', Outcome(FALSE, NotSent, token))
                      /\ members' = members
               ELSE IF WindowOver(m, expire_delta)
                 THEN /\ Same(result', Outcome(FALSE, Expired, token))
                      /\ members' = members
               ELSE IF token = m.confirmation_token
                 THEN /\ Same(result', Outcome(TRUE, Confirmed, token))
                      /\ members' = (members \ {m})
                                      \cup {[m EXCEPT !.is_confirmed = TRUE]}
               ELSE /\ Same(result', Outcome(FALSE, Invalid, token))
                    /\ members' = members
    ]_vars

\* C4 witness: every stored member is confirmed with an expired token, and
\* confirm has just answered "already confirmed" to a token that is not a
\* stored one
C4_Witness ==
  /\ members # {}
  /\ \A m \in members :
       /\ m.is_confirmed
       /\ \A expire_delta \in ExpireDeltas : WindowOver(m, expire_delta)
       /\ m.confirmation_token # result.token
  /\ result.op = "confirm"
  /\ result.value = <<TRUE, AlreadyConfirmed>>

\* C5: confirm with the matching token of an unconfirmed member whose
\* window is over fails with the expired message and leaves the member
\* unconfirmed.
C5_ExpiredMatchingTokenRejected ==
  [][result'.op = "confirm" =>
     \A student_id \in StudentIds, token \in Tokens,
        expire_delta \in ExpireDeltas :
       /\ token = result'.token
       /\ \E m \in members :
            /\ m.student_id = student_id
            /\ ~m.is_confirmed
            /\ m.confirmation_token = token
            /\ WindowOver(m, expire_delta)
       /\ Confirm(student_id, token, expire_delta)
       => /\ Same(result', Outcome(FALSE, Expired, token))
          /\ members' = members
    ]_vars

\* C5 witness: confirm has just answered "expired" to the token that every
\* stored member holds, and they are all unconfirmed
C5_Witness ==
  /\ members # {}
  /\ result.op = "confirm"
  /\ result.value = <<FALSE, Expired>>
  /\ \A m \in members :
       ~m.is_confirmed /\ m.confirmation_token = result.token

\* C6: has_token_expired is true exactly from the instant token issue time
\* plus expire_delta hours on; confirm with the matching token at that
\* instant answers "expired", and one clock tick earlier it confirms.
C6_BoundaryCountsAsExpired ==
  [][result'.op = "confirm" =>
     /\ \A m \in members, expire_delta \in ExpireDeltas :
          has_token_expired(m, expire_delta) <=> WindowOver(m, expire_delta)
     /\ \A student_id \in StudentIds, token \in Tokens,
           expire_delta \in ExpireDeltas :
          /\ token = result'.token
          /\ \E m \in members :
               /\ m.student_id = student_id
               /\ ~m.is_confirmed
               /\ m.confirmation_token = token
          /\ Confirm(student_id, token, expire_delta)
          => LET boundary == Row(student_id).confirmation_time
                               + expire_delta * TicksPerHour
             IN /\ now = boundary
                     => /\ Same(result', Outcome(FALSE, Expired, token))
                        /\ members' = members
                /\ now = boundary - 1
                     => /\ Same(result', Outcome(TRUE, Confirmed, token))
                        /\ \A n \in members' :
                             n.student_id = student_id => n.is_confirmed
    ]_vars

\* C6 witness: confirm has just answered "expired" to the matching token
\* at the very instant the window closed
C6_Witness ==
  /\ members # {}
  /\ result.op = "confirm"
  /\ result.value = <<FALSE, Expired>>
  /\ \A m \in members :
       /\ ~m.is_confirmed
       /\ m.confirmation_token = result.token
       /\ \E expire_delta \in ExpireDeltas :
            now = m.confirmation_time + expire_delta * TicksPerHour

\* C7 as stated: prune_expired removes every unconfirmed member whose token
\* is older than the window and keeps, unchanged, every confirmed member and
\* every unconfirmed member whose window is still open.
C7_PruneDeletesExactlyTheExpired ==
  [][result'.op = "prune_expired" =>
     \A expire_delta \in ExpireDeltas :
       PruneExpired(expire_delta)
         => \A m \in members :
              /\ (~m.is_confirmed
                    /\ now > m.confirmation_time + expire_delta * TicksPerHour)
                   => ~StoredAfter(m.student_id)
              /\ (m.is_confirmed
                    \/ now < m.confirmation_time + expire_delta * TicksPerHour)
                   => m \in members'
    ]_vars

\* C8 as stated: when the send fails while a new student_id is registered,
\* register_or_fetch returns None instead of raising, and the new record
\* stays stored, unconfirmed, with its token.
C8_SendFailureReturnsNone ==
  [][result'.op = "get_or_create" =>
     \A student_id \in StudentIds, form \in Forms, token \in Tokens,
        outcome \in SendOutcomes \ {"sent"} :
       ~Stored(student_id) /\ Register(student_id, form, token, outcome)
         => /\ Same(result', Returned("get_or_create", <<>>))
            /\ \E n \in members' :
                 /\ n.student_id = student_id
                 /\ ~n.is_confirmed
                 /\ n.confirmation_token = token
    ]_vars

\* C9 as stated: of two register_or_fetch calls that both found the
\* student_id missing, the one whose insert comes second stores nothing
\* new and returns the record the first one stored.
C9_LoserReturnsTheWinnersRecord ==
  [][\A p \in Procs :
       /\ call[p].pc = "insert"
       /\ Stored(call[p].student_id)
       /\ Insert(p)
       => /\ members' = members
          /\ Same(result', Returned("get_or_create", <<call[p].student_id>>))
    ]_vars

\* C10: after every step each stored member has confirmation_time set
\* exactly when confirmation_token is set, and a member's token goes from
\* unset to set only in a step that runs generate_confirmation_token on it.
C10_TokenAndTimeSetTogether ==
  [][/\ \A n \in members' :
          (n.confirmation_time = None) <=> (n.confirmation_token = NoToken)
     /\ \A n \in members' :
          /\ n.confirmation_token # NoToken
          /\ ~\E m \in members : /\ m.student_id = n.student_id
                                  /\ m.confirmation_token # NoToken
          => \/ \E token \in Tokens :
                  GenerateConfirmationToken(n.student_id, token)
             \/ \E p \in Procs, token \in Tokens :
                  /\ call[p].pc = "token"
                  /\ call[p].student_id = n.student_id
                  /\ GenToken(p, token)
    ]_vars

\* C10 witness: a worker inside get_or_create has issued the token of the
\* member it inserted an instant earlier, and both columns are set
C10_Witness ==
  \E m \in members :
    /\ m.confirmation_token # NoToken
    /\ m.confirmation_time # None
    /\ m.confirmation_time > m.time_added
    /\ \E p \in Procs : call[p].pc = "send" /\ call[p].student_id = m.student_id

\* C11: generate_confirmation_token on a stored member stores the new token
\* and the current time as its issue time and changes nothing else; right
\* after it, on the still-unconfirmed member, confirm with the token held
\* before (when it differs from the new one) answers "invalid token" and
\* confirm with the new token confirms. While a member is unconfirmed, a
\* confirm call with a token other than the stored one never confirms it,
\* and inside the window it answers "invalid token".
C11_NewTokenReplacesTheOld ==
  [][/\ result'.op = "generate_confirmation_token" =>
          \A student_id \in StudentIds, token \in Tokens :
            Stored(student_id) /\ GenerateConfirmationToken(student_id, token)
              => \A m \in members, n \in members' :
                   m.student_id = student_id /\ n.student_id = student_id
                     => /\ n = [m EXCEPT !.confirmation_token = token,
                                         !.confirmation_time = now]
                        /\ members' = (members \ {m}) \cup {n}
                        /\ ~m.is_confirmed /\ m.confirmation_token # token
                             => \A expire_delta \in ExpireDeltas :
                                  /\ confirm(n, m.confirmation_token,
                                             expire_delta)'.result.value
                                       = <<FALSE, Invalid>>
                                  /\ confirm(n, token, expire_delta)'.result.value
                                       = <<TRUE, Confirmed>>
     /\ result'.op = "confirm" =>
          \A student_id \in StudentIds, token \in Tokens,
             expire_delta \in ExpireDeltas :
            /\ token = result'.token
            /\ \E m \in members :
                 /\ m.student_id = student_id
                 /\ ~m.is_confirmed
                 /\ m.confirmation_token \notin {token, NoToken}
            /\ Confirm(student_id, token, expire_delta)
            => /\ members' = members
               /\ ~WindowOver(Row(student_id), expire_delta)
                    => Same(result', Outcome(FALSE, Invalid, token))
    ]_vars

\* C11 witness: the token that was mailed to the only member has been
\* replaced by a later one, and confirm has just answered "invalid token"
\* to the mailed token
C11_Witness ==
  /\ Cardinality(members) = 1
  /\ result.op = "confirm"
  /\ result.value = <<FALSE, Invalid>>
  /\ \A m \in members :
       /\ ~m.is_confirmed
       /\ m.confirmation_time > m.time_added
       /\ m.confirmation_token # result.token
       /\ BagIn(Mail(m.email, m.student_id, result.token), outbox)

\* C12: for an unconfirmed member whose token was never generated, confirm
\* answers "not sent" whatever token is supplied, the null token included,
\* and leaves the table as it was.
C12_NoTokenAnswersNotSent ==
  [][result'.op = "confirm" =>
     \A student_id \in StudentIds, token \in Tokens \cup {NoToken},
        expire_delta \in ExpireDeltas :
       /\ token = result'.token
       /\ \E m \in members :
            /\ m.student_id = student_id
            /\ ~m.is_confirmed
            /\ m.confirmation_token = NoToken
       /\ Confirm(student_id, token, expire_delta)
       => /\ Same(result', Outcome(FALSE, NotSent, token))
          /\ members' = members
    ]_vars

\* C12 witness: confirm has just answered "not sent" to a null token
\* supplied for a member that has no token yet
C12_Witness ==
  /\ result.op = "confirm"
  /\ result.token = NoToken
  /\ result.value = <<FALSE, NotSent>>
  /\ \E m \in members : ~m.is_confirmed /\ m.confirmation_token = NoToken

\* the five (success, message) pairs of confirm
Pairs ==
  {<<TRUE, AlreadyConfirmed>>, <<FALSE, NotSent>>, <<FALSE, Expired>>,
   <<TRUE, Confirmed>>, <<FALSE, Invalid>>}

\* C13: every confirm call returns one of the five (success, message)
\* pairs and never raises, and has_token_expired is never reached with a
\* confirmation_time of None: every stored member that gets past the first
\* two tests (unconfirmed, token set) has its issue time set. The member
\* states are those the operations produce, the one between the two commits
\* of get_or_create (token and issue time both null) included.
C13_ConfirmReturnsAPair ==
  [][result'.op = "confirm" =>
     /\ result'.status = "returned"
     /\ result'.value \in Pairs
     /\ \A m \in members :
          ~m.is_confirmed /\ m.confirmation_token # NoToken
            => m.confirmation_time # None
    ]_vars

\* C13 witness: confirm was called with a real token for a member whose
\* issue time is still null, and it returned the "not sent" pair
C13_Witness ==
  /\ result.op = "confirm"
  /\ result.status = "returned"
  /\ result.token \in Tokens
  /\ result.value = <<FALSE, NotSent>>
  /\ \E m \in members : ~m.is_confirmed /\ m.confirmation_time = None

\* C14: for an unconfirmed member inside its window, confirm with a token
\* other than the stored one answers "invalid token" and leaves the table,
\* the stored token included, as it was (so this can repeat any number of
\* times); confirm with the stored token then answers "confirmed"; and for
\* a confirmed member every confirm answers "already confirmed" and changes
\* nothing.
C14_WrongTokenKeepsTheToken ==
  [][result'.op = "confirm" =>
     \A student_id \in StudentIds, token \in Tokens \cup {NoToken},
        expire_delta \in ExpireDeltas :
       /\ token = result'.token
       /\ Stored(student_id)
       /\ Confirm(student_id, token, expire_delta)
       => LET m == Row(student_id)
              inside == /\ ~m.is_confirmed
                        /\ m.confirmation_token # NoToken
                        /\ ~WindowOver(m, expire_delta)
          IN /\ inside /\ token # m.confirmation_token
                  => /\ Same(result', Outcome(FALSE, Invalid, token))
                     /\ members' = members
             /\ inside /\ token = m.confirmation_token
                  => /\ Same(result', Outcome(TRUE, Confirmed, token))
                     /\ \A n \in members' :
                          n.student_id = student_id => n.is_confirmed
             /\ m.is_confirmed
                  => /\ Same(result', Outcome(TRUE, AlreadyConfirmed, token))
                     /\ members' = members
    ]_vars

\* C14 witness: the only member was registered with the token that was
\* mailed, has confirmed with it, and inside the window confirm has just
\* answered "already confirmed" to that same token, which is still stored
C14_Witness ==
  /\ Cardinality(members) = 1
  /\ result.op = "confirm"
  /\ result.value = <<TRUE, AlreadyConfirmed>>
  /\ \A m \in members :
       /\ m.is_confirmed
       /\ m.confirmation_time = m.time_added
       /\ m.confirmation_token = result.token
       /\ BagIn(Mail(m.email, m.student_id, result.token), outbox)
       /\ \A expire_delta \in ExpireDeltas : ~WindowOver(m, expire_delta)

\* C15: when get_or_create creates a member, the insert stores it with
\* is_confirmed false, and at the moment the mail is handed to the sender
\* the member is stored with a token; the send, whether it succeeds, fails
\* with a message or fails without one, leaves every row as it was.
C15_RecordCommittedBeforeSend ==
  [][/\ \A p \in Procs :
          /\ call[p].pc = "insert"
          /\ ~Stored(call[p].student_id)
          /\ Insert(p)
          => \E n \in members' :
               /\ n.student_id = call[p].student_id
               /\ ~n.is_confirmed
               /\ members' = members \cup {n}
     /\ \A p \in Procs, outcome \in SendOutcomes :
          /\ call[p].pc = "send"
          /\ Send(p, outcome)
          => /\ \E m \in members :
                  /\ m.student_id = call[p].student_id
                  /\ m.confirmation_token # NoToken
             /\ members' = members
    ]_vars

\* C15 witness: the send of a registration has just failed, get_or_create
\* returned None, and the member is stored, unconfirmed, with the token
\* that was put in the mail
C15_Witness ==
  /\ Same(result, Returned("get_or_create", <<>>))
  /\ \A p \in Procs : call[p].pc = "idle"
  /\ Cardinality(members) = 1
  /\ \A m \in members :
       /\ ~m.is_confirmed
       /\ BagIn(Mail(m.email, m.student_id, m.confirmation_token), outbox)

\* C16: get_or_create for a student_id that is not stored adds exactly one
\* row, unconfirmed, and hands exactly one mail to the sender, addressed to
\* the given email and carrying the student_id and the token stored in the
\* row; confirm with a mailed token that is still the stored one, inside
\* the window, confirms the member.
C16_MailCarriesTheStoredToken ==
  [][/\ result'.op = "get_or_create" =>
          \A student_id \in StudentIds, form \in Forms :
            ~Stored(student_id) /\ RegisterOrFetch(student_id, form)
              => \E n \in members' :
                   /\ n.student_id = student_id
                   /\ ~n.is_confirmed
                   /\ n.confirmation_token \in Tokens
                   /\ members' = members \cup {n}
                   /\ outbox' = outbox (+) SetToBag(
                        {[to_emails |-> form.email, student_id |-> student_id,
                          confirmation_token |-> n.confirmation_token]})
     /\ result'.op = "confirm" =>
          \A student_id \in StudentIds, token \in Tokens,
             expire_delta \in ExpireDeltas :
            /\ token = result'.token
            /\ \E m \in members :
                 /\ m.student_id = student_id
                 /\ ~m.is_confirmed
                 /\ m.confirmation_token = token
                 /\ ~WindowOver(m, expire_delta)
            /\ \E mail \in BagToSet(outbox) :
                 /\ mail.student_id = student_id
                 /\ mail.confirmation_token = token
            /\ Confirm(student_id, token, expire_delta)
            => /\ Same(result', Outcome(TRUE, Confirmed, token))
               /\ \A n \in members' :
                    n.student_id = student_id => n.is_confirmed
    ]_vars

\* C16 witness: one member was registered, one mail was sent, and the
\* member has just confirmed with the token of that mail, never having been
\* issued another
C16_Witness ==
  /\ Cardinality(members) = 1
  /\ BagCardinality(outbox) = 1
  /\ result.op = "confirm"
  /\ result.value = <<TRUE, Confirmed>>
  /\ \A m \in members :
       /\ m.is_confirmed
       /\ m.confirmation_time = m.time_added
       /\ BagIn(Mail(m.email, m.student_id, result.token), outbox)

\* C17: a confirm call that does not answer "confirmed" leaves every row
\* as it was; one that answers "confirmed" changes a single row, the
\* member's, and in it only is_confirmed, from false to true (the token
\* and its issue time stay stored). No confirm call sends a mail.
C17_ConfirmFrame ==
  [][result'.op = "confirm" =>
     \A student_id \in StudentIds, token \in Tokens \cup {NoToken},
        expire_delta \in ExpireDeltas :
       /\ token = result'.token
       /\ Stored(student_id)
       /\ Confirm(student_id, token, expire_delta)
       => /\ outbox' = outbox
          /\ IF result'.value = <<TRUE, Confirmed>>
               THEN \E m \in members :
                      /\ m.student_id = student_id
                      /\ ~m.is_confirmed
                      /\ members' = (members \ {m})
                                      \cup {[m EXCEPT !.is_confirmed = TRUE]}
               ELSE members' = members
    ]_vars

\* C17 witness: of two stored members one has just confirmed and still
\* holds the token it confirmed with, and the other is unconfirmed
C17_Witness ==
  /\ Cardinality(members) = 2
  /\ result.op = "confirm"
  /\ result.value = <<TRUE, Confirmed>>
  /\ \E m \in members, other \in members :
       /\ m.is_confirmed
       /\ m.confirmation_token = result.token
       /\ m.confirmation_time # None
       /\ ~other.is_confirmed
       /\ other.confirmation_token # result.token

\* C18: with the expiry window fixed, a stored unconfirmed member whose
\* window is over is, after any step that does not issue it a new token
\* (its issue time is the same), still unconfirmed and still over its
\* window: the clock only advances, and confirm never confirms it.
C18_ExpiryIsPermanent ==
  [][\A m \in members, n \in members', expire_delta \in ExpireDeltas :
       /\ m.student_id = n.student_id
       /\ ~m.is_confirmed
       /\ m.confirmation_token # NoToken
       /\ WindowOver(m, expire_delta)
       /\ n.confirmation_time = m.confirmation_time
       => /\ ~n.is_confirmed
          /\ n.confirmation_token = m.confirmation_token
          /\ now' >= now
          /\ WindowOver(n, expire_delta)'
    ]_vars

\* C18 witness: well after the window closed, confirm has again answered
\* "expired" to the matching token of the only member, still unconfirmed
C18_Witness ==
  /\ Cardinality(members) = 1
  /\ result.op = "confirm"
  /\ result.value = <<FALSE, Expired>>
  /\ \A m \in members :
       /\ ~m.is_confirmed
       /\ m.confirmation_token = result.token
       /\ \A expire_delta \in ExpireDeltas :
            now > m.confirmation_time + expire_delta * TicksPerHour

\* C19 as stated: in every state every stored unconfirmed member has its
\* confirmation_time set, so prune_expired never faults in its expiry test,
\* and confirm never sees a member whose token is still to be generated.
C19_NoHalfBuiltMemberIsVisible ==
  /\ \A m \in members : ~m.is_confirmed => m.confirmation_time # None
  /\ ~Same(result, Raised("prune_expired", "TypeError"))
  /\ ~(result.op = "confirm" /\ result.value = <<FALSE, NotSent>>)

\* C20 as stated: when the clock keeps advancing, prune_expired keeps being
\* called and no token is issued again, every stored member is eventually
\* confirmed or no longer stored.
C20_EveryMemberConfirmsOrGoes ==
  \A student_id \in StudentIds :
    Stored(student_id)
      ~> (\/ ~Stored(student_id)
          \/ \E m \in members : m.student_id = student_id /\ m.is_confirmed)

====
